---- MODULE Spec2Model ----
(***************************************************************************)
(* A model of the pglz codec of test_pglz: the compressor pglz_compress    *)
(* (src/perftest/pglz.c) with its chained-hash history, and the            *)
(* decompressor pglz_decompress_hacked (src/pg_lzcompress_hacked.c), tied  *)
(* together by the round trip of do_test (src/test_pglz.c).                *)
(*                                                                         *)
(* Buffers are sequences of bytes (0..255).  A C pointer into a buffer is  *)
(* the 0-based index of the byte it points to, so src_ptr = 0 is the first *)
(* byte and the byte *src_ptr is source[src_ptr + 1].                      *)
(***************************************************************************)
EXTENDS Integers, Sequences, FiniteSets, TLC

VARIABLES
    \* ---- pglz_compress ----
    source,         \* the input buffer (src_len = Len(source))
    strategy,       \* the PGLZ_Strategy the caller passes
    phase,          \* position of the call: "call", "loop", "ok", "failed", "idle"
    src_ptr,        \* input cursor
    dest,           \* bytes of the destination buffer, dest_ptr = Len(dest)
    control_ptr,    \* index in dest of the open control byte, Dummy = control_dummy
    control_byte,
    control_pos,
    found_match,
    hist_next,
    hist_idx,
    good_match,
    good_drop,
    result_max,
    mask,
    hist_start,     \* static int16 hist_start[]  (sparse: absent index = 0)
    hist_entries,   \* static PGLZ_HistEntry hist_entries[] (sparse: absent = zero entry)
    result,         \* the value pglz_compress returned (NoResult before it returns)
    last_tag,       \* the last tag passed to pglz_out_tag: [at, len, off], or NoTag
    \* ---- pglz_decompress_hacked ----
    csrc,           \* the compressed input buffer
    slen,
    rawsize,
    check_complete,
    dpc,            \* position of the call: "idle", "outer", "item", "copy",
                    \* "double", "done"
    sp,             \* input cursor
    out,            \* bytes written to dest so far, dp = Len(out)
    ctrl,
    ctrlc,
    len,
    off,
    dresult,        \* the value pglz_decompress_hacked returned
    encoded,        \* bytes the items decoded so far stand for (tag lengths unclamped)
    under_read,     \* a memcpy has read dest at an index below 0
    over_read,      \* the input was read at an index >= slen
    \* ---- a second pglz_compress call, while it is not the one running ----
    peer,           \* its locals, and shift: the address of its source minus
                    \* the address of the running call's source
    \* ---- the caller ----
    calls           \* the pglz_compress calls begun so far

cvars == <<source, strategy, phase, src_ptr, dest, control_ptr, control_byte,
           control_pos, found_match, hist_next, hist_idx, good_match, good_drop,
           result_max, mask, hist_start, hist_entries, result, last_tag, peer,
           calls>>
dvars == <<csrc, slen, rawsize, check_complete, dpc, sp, out, ctrl, ctrlc, len,
           off, dresult, encoded, under_read, over_read>>
vars == <<cvars, dvars>>

----------------------------------------------------------------------------
(* Program constants *)

INT_MAX == 2147483647
PGLZ_HISTORY_SIZE == 4094
PGLZ_MAX_MATCH == 273
INVALID_ENTRY == 0

(* Markers of the model *)
Dummy == -1        \* control_ptr = &control_dummy
Null == -1         \* a pos field never assigned (static zero initialisation)
NoResult == -2     \* the call has not returned
Unwritten == -1    \* a reserved control byte that has not been patched yet
NoTag == [at |-> -1, len |-> 0, off |-> 0]

Min(a, b) == IF a < b THEN a ELSE b
Max(a, b) == IF a > b THEN a ELSE b

----------------------------------------------------------------------------
(* Bit arithmetic on non-negative integers *)

RECURSIVE Xor(_, _)
Xor(a, b) ==
    IF a = 0 THEN b
    ELSE IF b = 0 THEN a
    ELSE (((a % 2) + (b % 2)) % 2) + 2 * Xor(a \div 2, b \div 2)

RECURSIVE BitAnd(_, _)
BitAnd(a, b) ==
    IF a = 0 \/ b = 0 THEN 0
    ELSE ((a % 2) * (b % 2)) + 2 * BitAnd(a \div 2, b \div 2)

RECURSIVE BitOr(_, _)
BitOr(a, b) ==
    IF a = 0 THEN b
    ELSE IF b = 0 THEN a
    ELSE (IF (a % 2) = 1 \/ (b % 2) = 1 THEN 1 ELSE 0) + 2 * BitOr(a \div 2, b \div 2)

Byte(x) == x % 256     \* the cast (unsigned char) of a non-negative int

----------------------------------------------------------------------------
(* Strategies *)

strategy_default_data ==
    [min_input_size |-> 32, max_input_size |-> INT_MAX, min_comp_rate |-> 25,
     first_success_by |-> 1024, match_size_good |-> 128, match_size_drop |-> 10]

\* the ALWAYS preset with the default preset's minimum input size
StrategyAlwaysMinSize ==
    [min_input_size |-> 32, max_input_size |-> INT_MAX, min_comp_rate |-> 0,
     first_success_by |-> INT_MAX, match_size_good |-> 128, match_size_drop |-> 6]

strategy_always_data ==
    [min_input_size |-> 0, max_input_size |-> INT_MAX, min_comp_rate |-> 0,
     first_success_by |-> INT_MAX, match_size_good |-> 128, match_size_drop |-> 6]

----------------------------------------------------------------------------
(* History table *)

ZeroEntry == [next_id |-> 0, hist_idx |-> 0, pos |-> Null]

\* hist_start[i] and hist_entries[i] of the zero-initialised static arrays
HistStartAt(hs, i) == IF i \in DOMAIN hs THEN hs[i] ELSE INVALID_ENTRY
HistEntryAt(he, i) == IF i \in DOMAIN he THEN he[i] ELSE ZeroEntry

\* no second call
NoPeer ==
    [shift |-> 0, source |-> << >>, strategy |-> strategy_default_data,
     phase |-> "none", src_ptr |-> 0, dest |-> << >>, control_ptr |-> Dummy,
     control_byte |-> 0, control_pos |-> 0, found_match |-> FALSE, hist_next |-> 1,
     hist_idx |-> 0, good_match |-> 0, good_drop |-> 0, result_max |-> 0,
     mask |-> 0, result |-> NoResult, last_tag |-> NoTag]

\* the byte at index i of the running call's source when i lies outside it:
\* the sources are parts of one array of zero bytes, so this is a byte of the
\* other call's source, if there is one, or a zero of the array around them
PeerByte(i) ==
    LET j == i - peer.shift
    IN  IF j >= 0 /\ j < Len(peer.source) THEN peer.source[j + 1] ELSE 0

\* the byte s[i] of a buffer
At(s, i) == IF i >= 0 /\ i < Len(s) THEN s[i + 1] ELSE PeerByte(i)

pglz_hist_idx(s, p, m) ==
    BitAnd(Xor(Xor(Xor(At(s, p) * 64, At(s, p + 1) * 16), At(s, p + 2) * 4),
               At(s, p + 3)), m)

\* pglz_hist_add with hist_next wrapping two entries late
HistAddLateWrap(s, h, p, m) ==
    LET entry == [next_id |-> HistStartAt(h.hs, h.hi), hist_idx |-> h.hi, pos |-> p]
        nxt == h.hn + 1
    IN  [hs |-> (h.hi :> h.hn) @@ h.hs,
         he |-> (h.hn :> entry) @@ h.he,
         hi |-> BitAnd(Xor(Xor(h.hi, At(s, p) * 64) * 4, At(s, p + 4)), m),
         hn |-> IF nxt = PGLZ_HISTORY_SIZE + 3 THEN 1 ELSE nxt]

\* pglz_hist_add with the outgoing byte left in the rolling index
HistAddKeepByte(s, h, p, m) ==
    LET entry == [next_id |-> HistStartAt(h.hs, h.hi), hist_idx |-> h.hi, pos |-> p]
        nxt == h.hn + 1
    IN  [hs |-> (h.hi :> h.hn) @@ h.hs,
         he |-> (h.hn :> entry) @@ h.he,
         hi |-> BitAnd(Xor(h.hi * 4, At(s, p + 4)), m),
         hn |-> IF nxt = PGLZ_HISTORY_SIZE + 1 THEN 1 ELSE nxt]

\* pglz_hist_add at input position p: the state [hs, he, hn, hi] after it
pglz_hist_add(s, h, p, m) ==
    LET entry == [next_id |-> HistStartAt(h.hs, h.hi), hist_idx |-> h.hi, pos |-> p]
        nxt == h.hn + 1
    IN  [hs |-> (h.hi :> h.hn) @@ h.hs,
         he |-> (h.hn :> entry) @@ h.he,
         hi |-> BitAnd(Xor(Xor(h.hi, At(s, p) * 64) * 4, At(s, p + 4)), m),
         hn |-> IF nxt = PGLZ_HISTORY_SIZE + 1 THEN 1 ELSE nxt]

\* the loop "while (match_len--) { pglz_hist_add(...); src_ptr++; }": n adds from
\* position p on, taken as the first half of the adds followed by the rest (the
\* test on first.hn has the first half computed before the rest starts from it)
RECURSIVE HistAddMany(_, _, _, _, _)
HistAddMany(s, h, p, n, m) ==
    IF n = 0 THEN h
    ELSE IF n = 1 THEN pglz_hist_add(s, h, p, m)
    ELSE LET first == HistAddMany(s, h, p, n \div 2, m)
         IN  IF first.hn >= 1
             THEN HistAddMany(s, first, p + (n \div 2), n - (n \div 2), m)
             ELSE first

----------------------------------------------------------------------------
(* pglz_out_tag: the bytes of a tag *)

\* pglz_out_tag with the long form starting one length late
OutTagLongLate(match_len, match_offset) ==
    IF match_len > 18
    THEN << Byte(BitOr(BitAnd(match_offset, 3840) \div 16, 15)),
            Byte(BitAnd(match_offset, 255)),
            Byte(match_len - 18) >>
    ELSE << Byte(BitOr(BitAnd(match_offset, 3840) \div 16, match_len - 3)),
            Byte(BitAnd(match_offset, 255)) >>

\* the low 12 bits of an int32 (two's complement): all that the masks 0xf00
\* and 0xff of pglz_out_tag keep of match_offset
Low12(x) == x % 4096

pglz_out_tag(match_len, match_offset) ==
    IF match_len > 17
    THEN << Byte(BitOr(BitAnd(Low12(match_offset), 3840) \div 16, 15)),
            Byte(BitAnd(Low12(match_offset), 255)),
            Byte(match_len - 18) >>
    ELSE << Byte(BitOr(BitAnd(Low12(match_offset), 3840) \div 16, match_len - 3)),
            Byte(BitAnd(Low12(match_offset), 255)) >>

----------------------------------------------------------------------------
(* pglz_find_match *)

\* the word compare on the low 3 bytes only
Read32EqLow3(s, a, b) == \A k \in 0..2 : At(s, a + k) = At(s, b + k)

\* pglz_read32(a) == pglz_read32(b): the 4 bytes at a and at b are the same
Read32Eq(s, a, b) == \A k \in 0..3 : At(s, a + k) = At(s, b + k)

\* memcmp(a, b, n) == 0
MemEq(s, a, b, n) == \A k \in 0..(n - 1) : At(s, a + k) = At(s, b + k)

\* "while (len <= len_bound - 4 && read32(input_pos) == read32(hist_pos)) len += 4"
\* with input_pos = ip + n and hist_pos = hp + n
RECURSIVE ExtendWords(_, _, _, _, _)
ExtendWords(s, ip, hp, n, len_bound) ==
    IF n <= len_bound - 4 /\ Read32Eq(s, ip + n, hp + n)
    THEN ExtendWords(s, ip, hp, n + 4, len_bound)
    ELSE n

\* the byte loop leaving the length where the word loop left it
ExtendBytesNone(s, ip, hp, n, len_bound) == n

\* "while (len < len_bound && *input_pos == *hist_pos) len++"
RECURSIVE ExtendBytes(_, _, _, _, _)
ExtendBytes(s, ip, hp, n, len_bound) ==
    IF n < len_bound /\ At(s, ip + n) = At(s, hp + n)
    THEN ExtendBytes(s, ip, hp, n + 1, len_bound)
    ELSE n

Extend(s, ip, hp, n, len_bound) ==
    ExtendBytes(s, ip, hp, ExtendWords(s, ip, hp, n, len_bound), len_bound)

\* One pass of the while(true) body for the entry e: the new [len, offset]
MatchEntry(s, input, e, m, len_bound) ==
    LET hist_pos == e.pos
        cur_offset == input - hist_pos
    IN  IF m.len >= 16
        THEN IF MemEq(s, input, hist_pos, m.len)
             THEN [len |-> Extend(s, input, hist_pos, m.len, len_bound),
                   offset |-> cur_offset]
             ELSE m
        ELSE IF Read32Eq(s, input, hist_pos)
             THEN LET cur_len == Extend(s, input, hist_pos, 4, len_bound)
                  IN  IF cur_len > m.len
                      THEN [len |-> cur_len, offset |-> cur_offset]
                      ELSE m
             ELSE m

\* the decay of good_match between two entries
GoodMatchDecay(gm, gd) == gm - ((gm * gd) \div 128)

\* the test without the comparison of the bucket
WalkStopsNoTag(m, gm, my_pos, nxt, hidx) ==
    m.len >= gm \/ my_pos <= nxt.pos

\* the test that ends the chain walk after the entry at my_pos, nxt being the
\* entry its next_id names
WalkStops(m, gm, my_pos, nxt, hidx) ==
    m.len >= gm \/ my_pos <= nxt.pos \/ hidx # nxt.hist_idx

\* One pass of the while(true) body from the state w of the walk: the entry
\* [id] to compare next, the best [len, offset] so far m, good_match gm, the
\* entries compared so far (of each, in the order of the walk: its id, hist_idx
\* and pos, and len and offset after the pass) and whether the loop has ended
WalkStep(s, he, hidx, input, gd, len_bound, w) ==
    LET e == HistEntryAt(he, w.id)
        m2 == MatchEntry(s, input, e, w.m, len_bound)
        nxt == HistEntryAt(he, e.next_id)
        stop == WalkStops(m2, w.gm, e.pos, nxt, hidx)
    IN  [id |-> e.next_id,
         m |-> m2,
         gm |-> IF stop THEN w.gm ELSE GoodMatchDecay(w.gm, gd),
         seen |-> Append(w.seen, [id |-> w.id, hist_idx |-> e.hist_idx, pos |-> e.pos,
                                  len |-> m2.len, offset |-> m2.offset]),
         done |-> stop]

\* up to n passes of the body, taken as the first half of them followed by the
\* rest (the test on first.done has the first half computed before the rest
\* starts from it)
RECURSIVE WalkMany(_, _, _, _, _, _, _, _)
WalkMany(s, he, hidx, input, gd, len_bound, w, n) ==
    IF w.done \/ n = 0 THEN w
    ELSE IF n = 1 THEN WalkStep(s, he, hidx, input, gd, len_bound, w)
    ELSE LET first == WalkMany(s, he, hidx, input, gd, len_bound, w, n \div 2)
         IN  IF first.done
             THEN first
             ELSE WalkMany(s, he, hidx, input, gd, len_bound, first, n - (n \div 2))

\* the while(true) loop from the entry numbered id, followed for one pass more
\* than the history has entries
WalkFrom(s, he, hidx, input, id, m, gm, gd, len_bound) ==
    WalkMany(s, he, hidx, input, gd, len_bound,
             [id |-> id, m |-> m, gm |-> gm, seen |-> << >>, done |-> FALSE],
             PGLZ_HISTORY_SIZE + 1)

\* the best [len, offset] the loop leaves
ChainWalk(s, he, hidx, input, id, m, gm, gd, len_bound) ==
    WalkFrom(s, he, hidx, input, id, m, gm, gd, len_bound).m

\* the entries the loop compares the input against
ChainVisited(s, he, hidx, input, id, m, gm, gd, len_bound) ==
    WalkFrom(s, he, hidx, input, id, m, gm, gd, len_bound).seen

\* the final clamp and the test for a match worth a tag
MatchResult(m, len_bound, hs) ==
    LET l == Min(m.len, len_bound)
    IN  IF l > 2
        THEN [found |-> TRUE, len |-> l, off |-> m.offset, hs |-> hs]
        ELSE [found |-> FALSE, len |-> 0, off |-> 0, hs |-> hs]

\* len_bound taken up to src_end
LenBoundToEnd(end, input) == Min(end + 4 - input, PGLZ_MAX_MATCH)

\* len_bound with the cap one past the longest match
LenBoundLoose(end, input) == Min(end - input, PGLZ_MAX_MATCH + 1)

\* "len_bound = Min(end - input, PGLZ_MAX_MATCH)"
LenBound(end, input) == Min(end - input, PGLZ_MAX_MATCH)

\* the entries a call pglz_find_match(hidx, input, end, ...) compares the input
\* against: none when the list is empty or its head is stale
Candidates(s, hs, he, hidx, input, end, gm, gd) ==
    LET head == HistStartAt(hs, hidx)
    IN  IF head = INVALID_ENTRY \/ hidx # HistEntryAt(he, head).hist_idx
        THEN << >>
        ELSE ChainVisited(s, he, hidx, input, head, [len |-> 0, offset |-> 0],
                          gm, gd, LenBound(end, input))

\* the heads all set to INVALID_ENTRY
ClearHeadAll(hs, hidx) == [i \in DOMAIN hs |-> INVALID_ENTRY]

\* "*hist_entry_number = INVALID_ENTRY" with hist_entry_number = &hist_start[hidx]
ClearHead(hs, hidx) == (hidx :> INVALID_ENTRY) @@ hs

\* pglz_find_match: [found, len, off] and the hist_start array it leaves
pglz_find_match(s, hs, he, hidx, input, end, gm, gd) ==
    LET len_bound == LenBound(end, input)
        head == HistStartAt(hs, hidx)
        none == [found |-> FALSE, len |-> 0, off |-> 0, hs |-> hs]
    IN  IF head = INVALID_ENTRY
        THEN none
        ELSE IF hidx # HistEntryAt(he, head).hist_idx
        THEN [none EXCEPT !.hs = ClearHead(hs, hidx)]
        ELSE MatchResult(ChainWalk(s, he, hidx, input, head,
                                   [len |-> 0, offset |-> 0], gm, gd, len_bound),
                         len_bound, hs)

----------------------------------------------------------------------------
(* pglz_compress *)

\* bytes the build can find at an address outside the buffer it was given
OobBytes == {0, 255}

\* what the 4 bytes at source..source+3 can be when src_len < 4
SourcePads(s) ==
    IF Len(s) >= 4 THEN {<< >>} ELSE [1..(4 - Len(s)) -> OobBytes]

\* the source indices pglz_hist_idx reads for the fingerprint at "at": s[0..3]
FingerprintReads(at) == at..(at + 3)

\* the source indices pglz_hist_add reads for the position "at": s[0] and s[4]
HistAddReads(at) == {at, at + 4}

ClampGoodMatch(g) ==
    IF g > PGLZ_MAX_MATCH THEN PGLZ_MAX_MATCH ELSE IF g < 17 THEN 17 ELSE g

ClampGoodDrop(d) ==
    ((IF d < 0 THEN 0 ELSE IF d > 100 THEN 100 ELSE d) * 128) \div 100

ClampNeedRate(r) == IF r < 0 THEN 0 ELSE IF r > 99 THEN 99 ELSE r

\* result_max without the division by 100
ResultMaxNoPercent(src_len, need_rate) ==
    IF src_len > INT_MAX \div 100
    THEN (src_len \div 100) * (100 - need_rate)
    ELSE src_len * (100 - need_rate)

ResultMax(src_len, need_rate) ==
    IF src_len > INT_MAX \div 100
    THEN (src_len \div 100) * (100 - need_rate)
    ELSE (src_len * (100 - need_rate)) \div 100

HashSize(src_len) ==
    IF src_len < 128 THEN 512
    ELSE IF src_len < 256 THEN 1024
    ELSE IF src_len < 512 THEN 2048
    ELSE IF src_len < 1024 THEN 4096
    ELSE 8192

StrategyRejects(st, src_len) ==
    \/ st.match_size_good <= 0
    \/ src_len < st.min_input_size
    \/ src_len > st.max_input_size

\* the memset left out
ClearHistStartNone(hs, hash_size) == hs

\* memset(hist_start, 0, hash_size * sizeof(int16))
ClearHistStart(hs, hash_size) ==
    LET keep == {i \in DOMAIN hs : i >= hash_size}
    IN  [i \in keep |-> hs[i]]

\* "*(control_ptr) = control_byte" on the destination bytes d
PatchControl(d, cp, cb) == IF cp = Dummy THEN d ELSE [d EXCEPT ![cp + 1] = cb]

\* a new control byte that starts from the bits of the one before
RefreshControlKeepBits(d, cp, cb, cpos) ==
    IF BitAnd(cpos, 255) = 0
    THEN [dest |-> Append(PatchControl(d, cp, cb), Unwritten),
          control_ptr |-> Len(d), control_byte |-> cb, control_pos |-> 1]
    ELSE [dest |-> d, control_ptr |-> cp, control_byte |-> cb, control_pos |-> cpos]

\* "if ((control_pos & 0xff) == 0) { ... }": [dest, control_ptr, control_byte, control_pos]
RefreshControl(d, cp, cb, cpos) ==
    IF BitAnd(cpos, 255) = 0
    THEN [dest |-> Append(PatchControl(d, cp, cb), Unwritten),
          control_ptr |-> Len(d), control_byte |-> 0, control_pos |-> 1]
    ELSE [dest |-> d, control_ptr |-> cp, control_byte |-> cb, control_pos |-> cpos]

\* the budget test with > for >=
BudgetExceededStrict(bytes_written, rmax) == bytes_written > rmax

\* pglz_compress has returned
Returned == phase \in {"ok", "failed"}

\* the two budget tests at the top of both loops
BudgetExceeded(bytes_written, rmax) == bytes_written >= rmax
NoSuccessYet(fm, bytes_written, st) == ~fm /\ bytes_written >= st.first_success_by

\* control_pos left where it is
ShiftControlPosNone(cpos) == cpos % 256

\* "control_pos <<= 1" on an unsigned char
ShiftControlPos(cpos) == (cpos * 2) % 256

\* The entry of pglz_compress, up to the first loop test
PglzCompressEnter ==
    /\ phase = "call"
    /\ LET src_len == Len(source)
           hash_size == HashSize(src_len)
       IN  IF StrategyRejects(strategy, src_len)
           THEN /\ phase' = "failed"
                /\ result' = -1
                /\ UNCHANGED <<good_match, good_drop, result_max, mask, hist_start,
                               hist_entries, hist_idx>>
           ELSE /\ phase' = "loop"
                /\ result' = NoResult
                /\ good_match' = ClampGoodMatch(strategy.match_size_good)
                /\ good_drop' = ClampGoodDrop(strategy.match_size_drop)
                /\ result_max' = ResultMax(src_len, ClampNeedRate(strategy.min_comp_rate))
                /\ mask' = hash_size - 1
                /\ hist_start' = ClearHistStart(hist_start, hash_size)
                /\ hist_entries' =
                       (INVALID_ENTRY :>
                           [HistEntryAt(hist_entries, INVALID_ENTRY) EXCEPT !.pos = src_len])
                       @@ hist_entries
                /\ \E pad \in SourcePads(source) :
                       hist_idx' = pglz_hist_idx(source \o pad, 0, hash_size - 1)
    /\ src_ptr' = 0
    /\ dest' = << >>
    /\ control_ptr' = Dummy
    /\ control_byte' = 0
    /\ control_pos' = 0
    /\ found_match' = FALSE
    /\ hist_next' = 1
    /\ last_tag' = NoTag
    /\ UNCHANGED <<source, strategy>>
    /\ UNCHANGED <<peer, calls, dvars>>

Fail ==
    /\ phase' = "failed"
    /\ result' = -1
    /\ UNCHANGED <<src_ptr, dest, control_ptr, control_byte, control_pos, found_match,
                   hist_next, hist_idx, hist_start, hist_entries, last_tag>>

\* One iteration of "while (src_ptr < compress_src_end)" (fm is what the one
\* call of pglz_find_match returns, h1 the history after the adds)
MainLoopStep ==
    /\ phase = "loop"
    /\ src_ptr < Len(source) - 4
    /\ IF BudgetExceeded(Len(dest), result_max)
          \/ NoSuccessYet(found_match, Len(dest), strategy)
       THEN Fail
       ELSE \E fm \in {pglz_find_match(source, hist_start, hist_entries, hist_idx,
                                        src_ptr, Len(source) - 4, good_match, good_drop)} :
            \E h1 \in {HistAddMany(source,
                                   [hs |-> fm.hs, he |-> hist_entries, hn |-> hist_next,
                                    hi |-> hist_idx],
                                   src_ptr, IF fm.found THEN fm.len ELSE 1, mask)} :
            LET c == RefreshControl(dest, control_ptr, control_byte, control_pos)
                n == IF fm.found THEN fm.len ELSE 1
            IN  /\ phase' = "loop"
                /\ result' = result
                /\ control_ptr' = c.control_ptr
                /\ control_byte' = IF fm.found
                                   THEN BitOr(c.control_byte, c.control_pos)
                                   ELSE c.control_byte
                /\ control_pos' = ShiftControlPos(c.control_pos)
                /\ dest' = IF fm.found
                           THEN c.dest \o pglz_out_tag(fm.len, fm.off)
                           ELSE Append(c.dest, At(source, src_ptr))
                /\ last_tag' = IF fm.found
                               THEN [at |-> src_ptr, len |-> fm.len, off |-> fm.off]
                               ELSE last_tag
                /\ found_match' = (found_match \/ fm.found)
                /\ src_ptr' = src_ptr + n
                /\ hist_start' = h1.hs
                /\ hist_entries' = h1.he
                /\ hist_next' = h1.hn
                /\ hist_idx' = h1.hi
    /\ UNCHANGED <<source, strategy, good_match, good_drop, result_max, mask>>
    /\ UNCHANGED <<peer, calls, dvars>>

\* One iteration of "while (src_ptr < src_end)"
TailLoopStep ==
    /\ phase = "loop"
    /\ ~(src_ptr < Len(source) - 4)
    /\ src_ptr < Len(source)
    /\ IF BudgetExceeded(Len(dest), result_max)
          \/ NoSuccessYet(found_match, Len(dest), strategy)
       THEN Fail
       ELSE LET c == RefreshControl(dest, control_ptr, control_byte, control_pos)
            IN  /\ phase' = "loop"
                /\ result' = result
                /\ control_ptr' = c.control_ptr
                /\ control_byte' = c.control_byte
                /\ control_pos' = ShiftControlPos(c.control_pos)
                /\ dest' = Append(c.dest, At(source, src_ptr))
                /\ src_ptr' = src_ptr + 1
                /\ UNCHANGED <<found_match, hist_next, hist_idx, hist_start,
                               hist_entries, last_tag>>
    /\ UNCHANGED <<source, strategy, good_match, good_drop, result_max, mask>>
    /\ UNCHANGED <<peer, calls, dvars>>

\* After the loops: the last control byte and the final size test
PglzCompressReturn ==
    /\ phase = "loop"
    /\ ~(src_ptr < Len(source) - 4)
    /\ ~(src_ptr < Len(source))
    /\ dest' = PatchControl(dest, control_ptr, control_byte)
    /\ IF BudgetExceeded(Len(dest), result_max)
       THEN phase' = "failed" /\ result' = -1
       ELSE phase' = "ok" /\ result' = Len(dest)
    /\ UNCHANGED <<source, strategy, src_ptr, control_ptr, control_byte, control_pos,
                   found_match, hist_next, hist_idx, good_match, good_drop, result_max,
                   mask, hist_start, hist_entries, last_tag>>
    /\ UNCHANGED <<peer, calls, dvars>>

\* the positions the first loop has passed: each of them got a history insert
IndexedSoFar == Min(src_ptr, Max(Len(source) - 4, 0))

\* the source indices a call that passed the strategy test has read so far: the
\* initial fingerprint, the two bytes of every history insert and every byte
\* the loops have consumed
SourceReads ==
    FingerprintReads(0)
    \cup UNION {HistAddReads(p) : p \in 0..(IndexedSoFar - 1)}
    \cup 0..(src_ptr - 1)

----------------------------------------------------------------------------
(* pglz_compress as a function: one call from the arrays as the program starts
   them (all zero), run to its return *)

\* both loops from the locals c on: [result, dest] at the return
RECURSIVE CompressLoop(_, _, _)
CompressLoop(s, st, c) ==
    LET src_len == Len(s)
        rmax == ResultMax(src_len, ClampNeedRate(st.min_comp_rate))
        m == HashSize(src_len) - 1
    IN  IF c.src_ptr < src_len
        THEN IF BudgetExceeded(Len(c.dest), rmax)
                \/ NoSuccessYet(c.found_match, Len(c.dest), st)
             THEN [result |-> -1, dest |-> c.dest]
             ELSE LET r == RefreshControl(c.dest, c.control_ptr, c.control_byte,
                                          c.control_pos)
                  IN  IF c.src_ptr < src_len - 4
                      THEN LET fm == pglz_find_match(s, c.hs, c.he, c.hi, c.src_ptr,
                                         src_len - 4,
                                         ClampGoodMatch(st.match_size_good),
                                         ClampGoodDrop(st.match_size_drop))
                               n == IF fm.found THEN fm.len ELSE 1
                               h1 == HistAddMany(s, [hs |-> fm.hs, he |-> c.he,
                                                     hn |-> c.hn, hi |-> c.hi],
                                                 c.src_ptr, n, m)
                           IN  CompressLoop(s, st,
                                   [src_ptr |-> c.src_ptr + n,
                                    dest |-> IF fm.found
                                             THEN r.dest \o pglz_out_tag(fm.len, fm.off)
                                             ELSE Append(r.dest, At(s, c.src_ptr)),
                                    control_ptr |-> r.control_ptr,
                                    control_byte |-> IF fm.found
                                                     THEN BitOr(r.control_byte, r.control_pos)
                                                     ELSE r.control_byte,
                                    control_pos |-> ShiftControlPos(r.control_pos),
                                    found_match |-> (c.found_match \/ fm.found),
                                    hs |-> h1.hs, he |-> h1.he, hn |-> h1.hn,
                                    hi |-> h1.hi])
                      ELSE CompressLoop(s, st,
                               [c EXCEPT !.src_ptr = c.src_ptr + 1,
                                         !.dest = Append(r.dest, At(s, c.src_ptr)),
                                         !.control_ptr = r.control_ptr,
                                         !.control_byte = r.control_byte,
                                         !.control_pos = ShiftControlPos(r.control_pos)])
        ELSE LET d == PatchControl(c.dest, c.control_ptr, c.control_byte)
             IN  IF BudgetExceeded(Len(c.dest), rmax)
                 THEN [result |-> -1, dest |-> d]
                 ELSE [result |-> Len(c.dest), dest |-> d]

\* pglz_compress(s, |s|, dest, st): the value returned and the bytes written
\* (the first hist_idx of an input under 4 bytes reads past it; it is used by
\* the main loop only, which such an input never enters)
pglz_compress(s, st) ==
    IF StrategyRejects(st, Len(s))
    THEN [result |-> -1, dest |-> << >>]
    ELSE LET pad == CHOOSE q \in SourcePads(s) : TRUE
         IN  CompressLoop(s, st,
                 [src_ptr |-> 0, dest |-> << >>, control_ptr |-> Dummy,
                  control_byte |-> 0, control_pos |-> 0, found_match |-> FALSE,
                  hs |-> << >>,
                  he |-> (INVALID_ENTRY :> [ZeroEntry EXCEPT !.pos = Len(s)]),
                  hn |-> 1,
                  hi |-> pglz_hist_idx(s \o pad, 0, HashSize(Len(s)) - 1)])

----------------------------------------------------------------------------
(* pglz_decompress_hacked *)

\* the values a read of source[i] can give: the byte, or anything past the end
\* (csrc holds the bytes of the input and, when they are known, the bytes of
\* memory that follow them)
SrcRead(i) == IF i >= 0 /\ i < Len(csrc) THEN {At(csrc, i)} ELSE OobBytes

\* the length nibble with the wrong bias
TagLenPlusTwo(b0) == BitAnd(b0, 15) + 2

\* "len = (sp[0] & 0x0f) + 3" and "off = ((sp[0] & 0xf0) << 4) | sp[1]"
TagLen(b0) == BitAnd(b0, 15) + 3
TagOff(b0, b1) == BitOr(BitAnd(b0, 240) * 16, b1)

\* the fields of the tag whose bytes are b0, b1 and, for a long tag, b2:
\* "if (len == 18) len += *sp++", used being the input bytes consumed
TagFields(b0, b1, b2) ==
    LET long == TagLen(b0) = 18
    IN  [len |-> IF long THEN TagLen(b0) + b2 ELSE TagLen(b0),
         off |-> TagOff(b0, b1),
         used |-> IF long THEN 3 ELSE 2]

\* the tag length left unclamped
ClampLenNone(l, dp, destend) == l

\* the clamp leaving the last byte of the destination out
ClampLenShort(l, dp, destend) == Min(l, destend - dp - 1)

\* the clamp letting one byte past the end of the destination
ClampLenOneMore(l, dp, destend) == Min(l, destend - dp + 1)

\* "len = Min(len, destend - dp)"
ClampLen(l, dp, destend) == Min(l, destend - dp)

\* the garbage a memcpy of n bytes from dest index from can pick up below dest[0]
UnderBytes(from, n) ==
    [1..(IF from < 0 THEN Min(n, 0 - from) ELSE 0) -> OobBytes]

\* the n bytes memcpy reads at dest index from, g standing for the bytes below dest[0]
CopyBytes(o, from, n, g) ==
    [k \in 1..n |-> IF from + k - 1 < 0 THEN g[k] ELSE o[from + k]]

\* the final test with "and" for "or"
DecompressResultBoth(dp, destend, s, srcend, complete) ==
    IF complete /\ (dp # destend /\ s # srcend) THEN -1 ELSE dp

\* the final test and the return value
DecompressResult(dp, destend, s, srcend, complete) ==
    IF complete /\ (dp # destend \/ s # srcend) THEN -1 ELSE dp

\* "while (sp < srcend && dp < destend)": read the control byte of a group
DecControl ==
    /\ dpc = "outer"
    /\ sp < slen /\ Len(out) < rawsize
    /\ ctrl' = At(csrc, sp)
    /\ sp' = sp + 1
    /\ ctrlc' = 0
    /\ dpc' = "item"
    /\ UNCHANGED <<csrc, slen, rawsize, check_complete, out, len, off, dresult,
                   encoded, under_read, over_read>>
    /\ UNCHANGED cvars

\* the outer loop is over: check and return
DecReturn ==
    /\ dpc = "outer"
    /\ ~(sp < slen /\ Len(out) < rawsize)
    /\ dresult' = DecompressResult(Len(out), rawsize, sp, slen, check_complete)
    /\ dpc' = "done"
    /\ UNCHANGED <<csrc, slen, rawsize, check_complete, sp, out, ctrl, ctrlc, len, off,
                   encoded, under_read, over_read>>
    /\ UNCHANGED cvars

ItemGuard == ctrlc < 8 /\ sp < slen /\ Len(out) < rawsize

\* an item whose control bit is clear: one literal byte
DecLiteral ==
    /\ dpc = "item"
    /\ ItemGuard
    /\ ctrl % 2 = 0
    /\ out' = Append(out, At(csrc, sp))
    /\ sp' = sp + 1
    /\ ctrl' = ctrl \div 2
    /\ ctrlc' = ctrlc + 1
    /\ encoded' = encoded + 1
    /\ UNCHANGED <<csrc, slen, rawsize, check_complete, dpc, len, off, dresult,
                   under_read, over_read>>
    /\ UNCHANGED cvars

\* an item whose control bit is set: decode the tag and clamp its length
DecTag ==
    /\ dpc = "item"
    /\ ItemGuard
    /\ ctrl % 2 = 1
    /\ \E b1 \in SrcRead(sp + 1), b2 \in SrcRead(sp + 2) :
         LET tag == TagFields(At(csrc, sp), b1, b2)
         IN  /\ len' = ClampLen(tag.len, Len(out), rawsize)
             /\ off' = tag.off
             /\ sp' = sp + tag.used
             /\ encoded' = encoded + tag.len
             /\ over_read' = (over_read \/ sp + tag.used > slen)
    /\ dpc' = "copy"
    /\ UNCHANGED <<csrc, slen, rawsize, check_complete, out, ctrl, ctrlc, dresult,
                   under_read>>
    /\ UNCHANGED cvars

\* "while (off <= len)" holds: "memcpy(dp, dp - off, off); len -= off; dp += off;"
DecCopyDouble ==
    /\ dpc = "copy"
    /\ off <= len
    /\ \E g \in UnderBytes(Len(out) - off, off) :
         out' = out \o CopyBytes(out, Len(out) - off, off, g)
    /\ under_read' = (under_read \/ (off > 0 /\ Len(out) - off < 0))
    /\ len' = len - off
    /\ dpc' = "double"
    /\ UNCHANGED <<csrc, slen, rawsize, check_complete, sp, ctrl, ctrlc, off, dresult,
                   encoded, over_read>>
    /\ UNCHANGED cvars

\* "off *= 2;" and back to the loop test
DecCopyShift ==
    /\ dpc = "double"
    /\ off' = off * 2
    /\ dpc' = "copy"
    /\ UNCHANGED <<csrc, slen, rawsize, check_complete, sp, out, ctrl, ctrlc, len,
                   dresult, encoded, under_read, over_read>>
    /\ UNCHANGED cvars

\* "memcpy(dp, dp - off, len); dp += len;" and the advance of the control bit
DecCopyRest ==
    /\ dpc = "copy"
    /\ ~(off <= len)
    /\ \E g \in UnderBytes(Len(out) - off, len) :
         out' = out \o CopyBytes(out, Len(out) - off, len, g)
    /\ under_read' = (under_read \/ (len > 0 /\ Len(out) - off < 0))
    /\ ctrl' = ctrl \div 2
    /\ ctrlc' = ctrlc + 1
    /\ dpc' = "item"
    /\ UNCHANGED <<csrc, slen, rawsize, check_complete, sp, len, off, dresult,
                   encoded, over_read>>
    /\ UNCHANGED cvars

\* the for loop over the items of a group is over
DecGroupEnd ==
    /\ dpc = "item"
    /\ ~ItemGuard
    /\ dpc' = "outer"
    /\ UNCHANGED <<csrc, slen, rawsize, check_complete, sp, out, ctrl, ctrlc, len, off,
                   dresult, encoded, under_read, over_read>>
    /\ UNCHANGED cvars

----------------------------------------------------------------------------
(* The decompressors as functions: pglz_decompress_vanilla,
   pglz_decompress_hacked, pglz_decompress_hacked_unrolled and
   pglz_decompress_hacked4, 8, 16 and 32.  They differ in the copy of a match
   and in the test of the control bit. *)

Variants ==
    {"vanilla", "hacked", "unrolled", "hacked4", "hacked8", "hacked16", "hacked32"}

\* the byte copy reading the byte before dp whatever the offset
RECURSIVE ByteCopyLast(_, _, _)
ByteCopyLast(o, offset, l) ==
    IF l = 0 THEN o ELSE ByteCopyLast(Append(o, o[Len(o)]), offset, l - 1)

\* "while (len--) { *dp = dp[-off]; dp++; }"
RECURSIVE ByteCopy(_, _, _)
ByteCopy(o, offset, l) ==
    IF l = 0 THEN o ELSE ByteCopy(Append(o, o[Len(o) - offset + 1]), offset, l - 1)

\* "while (off <= len) { memcpy(dp, dp - off, off); len -= off; dp += off;
\* off *= 2; } memcpy(dp, dp - off, len);"
RECURSIVE DoublingCopy(_, _, _)
DoublingCopy(o, offset, l) ==
    IF offset <= l
    THEN DoublingCopy(o \o CopyBytes(o, Len(o) - offset, offset, << >>),
                      offset * 2, l - offset)
    ELSE o \o CopyBytes(o, Len(o) - offset, l, << >>)

\* the N of "if (len > N)" in pglz_decompress_hackedN
MemcpyThreshold(v) ==
    CASE v = "hacked4" -> 4 [] v = "hacked8" -> 8 [] v = "hacked16" -> 16
      [] v = "hacked32" -> 32

\* the copy of a match of l bytes at the offset, after the bytes o
MatchCopy(v, o, offset, l) ==
    CASE v = "vanilla" -> ByteCopy(o, offset, l)
      [] v \in {"hacked", "unrolled"} -> DoublingCopy(o, offset, l)
      [] OTHER -> IF l > MemcpyThreshold(v)
                  THEN DoublingCopy(o, offset, l)
                  ELSE ByteCopy(o, offset, l)

RECURSIVE Pow2(_)
Pow2(n) == IF n = 0 THEN 1 ELSE 2 * Pow2(n - 1)

\* the test of the control bit of item ctrlc: "ctrl & 1" on the control byte
\* shifted ctrlc times, or "ctrl & 0x1", "ctrl & 0x2", ... on the byte as read
ControlBitSet(v, c, n) ==
    IF v = "unrolled" THEN BitAnd(c, Pow2(n)) # 0 ELSE (c \div Pow2(n)) % 2 = 1

\* The items the decompressor's loops take from the stream d, from the byte
\* index i on, c being the index of the open control byte (none: -1), n the
\* items already taken from it and o the output position: of each item whether
\* it is a tag, the output position it starts at, the bytes it stands for, its
\* offset (a literal: 0), its first byte, its control byte and its bit
RECURSIVE ParseItems(_, _, _, _, _, _)
ParseItems(d, i, c, n, o, acc) ==
    IF i >= Len(d) THEN acc
    ELSE IF c < 0 \/ n = 8 THEN ParseItems(d, i + 1, i, 0, o, acc)
    ELSE LET byte(j) == IF j < Len(d) THEN d[j + 1] ELSE 0
             is_tag == ControlBitSet("hacked", d[c + 1], n)
             f == TagFields(byte(i), byte(i + 1), byte(i + 2))
             item == [tag |-> is_tag, at |-> o,
                      len |-> IF is_tag THEN f.len ELSE 1,
                      off |-> IF is_tag THEN f.off ELSE 0,
                      byte |-> byte(i), ctrl |-> c, bit |-> n]
         IN  ParseItems(d, i + (IF is_tag THEN f.used ELSE 1), c, n + 1,
                        o + item.len, Append(acc, item))

StreamItems(d) == ParseItems(d, 0, -1, 0, 0, << >>)

\* the items of one control byte c from item n on, then the next control bytes:
\* [sp, out] when the outer loop ends
RECURSIVE DecodeGroup(_, _, _, _, _, _, _)
DecodeGroup(v, mem, srcend, destend, s, o, g) ==
    IF g.n < 8 /\ s < srcend /\ Len(o) < destend
    THEN IF ControlBitSet(v, g.c, g.n)
         THEN LET tag == TagFields(At(mem, s), At(mem, s + 1), At(mem, s + 2))
                  l == ClampLen(tag.len, Len(o), destend)
              IN  DecodeGroup(v, mem, srcend, destend, s + tag.used,
                              MatchCopy(v, o, tag.off, l), [c |-> g.c, n |-> g.n + 1])
         ELSE DecodeGroup(v, mem, srcend, destend, s + 1, Append(o, At(mem, s)),
                          [c |-> g.c, n |-> g.n + 1])
    ELSE IF s < srcend /\ Len(o) < destend
         THEN DecodeGroup(v, mem, srcend, destend, s + 1, o, [c |-> At(mem, s), n |-> 0])
         ELSE [sp |-> s, out |-> o]

\* every match met from item g.n of the control byte g.c on has an offset of
\* at least 1 and at most the bytes written before it (written so far: w)
RECURSIVE OffsetsInRange(_, _, _, _, _, _)
OffsetsInRange(mem, srcend, destend, s, w, g) ==
    IF g.n < 8 /\ s < srcend /\ w < destend
    THEN IF (g.c \div Pow2(g.n)) % 2 = 1
         THEN LET tag == TagFields(At(mem, s), At(mem, s + 1), At(mem, s + 2))
              IN  /\ tag.off >= 1
                  /\ tag.off <= w
                  /\ OffsetsInRange(mem, srcend, destend, s + tag.used,
                                    w + ClampLen(tag.len, w, destend),
                                    [c |-> g.c, n |-> g.n + 1])
         ELSE OffsetsInRange(mem, srcend, destend, s + 1, w + 1,
                             [c |-> g.c, n |-> g.n + 1])
    ELSE IF s < srcend /\ w < destend
         THEN OffsetsInRange(mem, srcend, destend, s + 1, w, [c |-> At(mem, s), n |-> 0])
         ELSE TRUE

\* the decompressor v on the slen bytes at the start of mem: the value
\* returned and the bytes written
pglz_decompress(v, mem, srclen, destlen, complete) ==
    LET d == DecodeGroup(v, mem, srclen, destlen, 0, << >>, [c |-> 0, n |-> 8])
    IN  [result |-> DecompressResult(Len(d.out), destlen, d.sp, srclen, complete),
         out |-> d.out]

----------------------------------------------------------------------------
(* do_test: compress, then decompress what was compressed *)

DoTestDecompress ==
    /\ phase \in {"ok", "failed"}
    /\ dpc = "idle"
    /\ csrc' = dest
    /\ slen' = result
    /\ rawsize' = Len(source)
    /\ check_complete' = TRUE
    /\ dpc' = "outer"
    /\ sp' = 0
    /\ out' = << >>
    /\ UNCHANGED <<ctrl, ctrlc, len, off, dresult, encoded, under_read, over_read>>
    /\ UNCHANGED cvars

\* a caller that asks for the first k bytes only: the decompressor on what was
\* compressed, with rawsize = k and check_complete = false
DoSlicedDecompress ==
    /\ phase = "ok"
    /\ dpc = "idle"
    /\ csrc' = dest
    /\ slen' = result
    /\ rawsize' \in 0..Len(source)
    /\ check_complete' = FALSE
    /\ dpc' = "outer"
    /\ sp' = 0
    /\ out' = << >>
    /\ UNCHANGED <<ctrl, ctrlc, len, off, dresult, encoded, under_read, over_read>>
    /\ UNCHANGED cvars

----------------------------------------------------------------------------
(* Inputs *)

MaxSmallLen == 8      \* every string over SmallAlphabet up to this length
MaxUnit == 3          \* longest repeated unit of a periodic input
MaxLen == 34          \* lengths of the periodic inputs: MinLen..MaxLen
MinLen == strategy_default_data.min_input_size
MaxSlen == 4          \* longest compressed stream given to the decompressor alone
MaxRaw == 5           \* largest rawsize given to the decompressor alone

SmallAlphabet == {65, 66}
UnitAlphabet == {65, 66, 67}

SeqsUpTo(S, n) == UNION {[1..k -> S] : k \in 0..n}

\* u repeated up to length l
Periodic(u, l) == [i \in 1..l |-> u[((i - 1) % Len(u)) + 1]]

\* s with the byte at index k (0-based) replaced by a byte no unit holds
Break(s, k) == IF k < 0 THEN s ELSE [s EXCEPT ![k + 1] = 88]

Units == SeqsUpTo(UnitAlphabet, MaxUnit) \ {<< >>}

PeriodicInputs ==
    {Break(Periodic(u, l), k) : u \in Units, l \in MinLen..MaxLen, k \in {-1, 9, 20}}

\* an input without any repeat, long enough for its literals and control bytes
\* to pass src_len + 3
IncompLen == 26
Incompressible == [i \in 1..IncompLen |-> i]

\* a block of 16 distinct bytes three times, a different byte after each
Block == [i \in 1..16 |-> i]
ThreeBlocks == Block \o <<100>> \o Block \o <<101>> \o Block \o <<102, 103, 104, 105, 106>>

Inputs ==
    SeqsUpTo(SmallAlphabet, MaxSmallLen) \cup {<<65, 66, 67, 68>>} \cup PeriodicInputs
    \cup {Incompressible, ThreeBlocks}

\* strategies a caller passes besides the two presets
StrategyRate99 ==
    [min_input_size |-> 0, max_input_size |-> INT_MAX, min_comp_rate |-> 99,
     first_success_by |-> INT_MAX, match_size_good |-> 128, match_size_drop |-> 10]

StrategyImpatient ==
    [min_input_size |-> 0, max_input_size |-> 33, min_comp_rate |-> 10,
     first_success_by |-> 4, match_size_good |-> 1000, match_size_drop |-> 200]

Strategies ==
    {strategy_default_data, strategy_always_data, StrategyRate99, StrategyImpatient}

\* the bytes of the streams given to the decompressor alone: control bytes,
\* tag bytes with lengths 3 and 18+, offsets 0, 1 and 2, and a literal
StreamBytes == {0, 1, 2, 15, 65}

----------------------------------------------------------------------------
(* Specifications *)

CompressIdle ==
    /\ src_ptr = 0
    /\ dest = << >>
    /\ control_ptr = Dummy
    /\ control_byte = 0
    /\ control_pos = 0
    /\ found_match = FALSE
    /\ hist_next = 1
    /\ hist_idx = 0
    /\ good_match = 0
    /\ good_drop = 0
    /\ result_max = 0
    /\ mask = 0
    /\ hist_start = << >>
    /\ hist_entries = << >>
    /\ result = NoResult
    /\ last_tag = NoTag

DecompressIdle ==
    /\ sp = 0
    /\ out = << >>
    /\ ctrl = 0
    /\ ctrlc = 0
    /\ len = 0
    /\ off = 0
    /\ dresult = NoResult
    /\ encoded = 0
    /\ under_read = FALSE
    /\ over_read = FALSE

\* do_test on one input: the static arrays are as the program starts them
Init ==
    /\ source \in Inputs
    /\ strategy \in Strategies
    /\ phase = "call"
    /\ CompressIdle
    /\ peer = NoPeer
    /\ calls = 1
    /\ csrc = << >>
    /\ slen = 0
    /\ rawsize = 0
    /\ check_complete = FALSE
    /\ dpc = "idle"
    /\ DecompressIdle

Next ==
    \/ PglzCompressEnter
    \/ MainLoopStep
    \/ TailLoopStep
    \/ PglzCompressReturn
    \/ DoTestDecompress
    \/ DecControl
    \/ DecLiteral
    \/ DecTag
    \/ DecCopyDouble
    \/ DecCopyShift
    \/ DecCopyRest
    \/ DecGroupEnd
    \/ DecReturn

Spec == Init /\ [][Next]_vars

\* compress, then decompress any prefix of what was compressed
SliceNext ==
    \/ PglzCompressEnter
    \/ MainLoopStep
    \/ TailLoopStep
    \/ PglzCompressReturn
    \/ DoSlicedDecompress
    \/ DecControl
    \/ DecLiteral
    \/ DecTag
    \/ DecCopyDouble
    \/ DecCopyShift
    \/ DecCopyRest
    \/ DecGroupEnd
    \/ DecReturn

SliceSpec == Init /\ [][SliceNext]_vars

\* pglz_decompress_hacked alone, on any stream, rawsize and check_complete
DecInit ==
    /\ source = << >>
    /\ strategy = strategy_default_data
    /\ phase = "idle"
    /\ CompressIdle
    /\ peer = NoPeer
    /\ calls = 1
    /\ csrc \in SeqsUpTo(StreamBytes, MaxSlen)
    /\ slen = Len(csrc)
    /\ rawsize \in 0..MaxRaw
    /\ check_complete \in BOOLEAN
    /\ dpc = "outer"
    /\ DecompressIdle

DecNext ==
    \/ DecControl
    \/ DecLiteral
    \/ DecTag
    \/ DecCopyDouble
    \/ DecCopyShift
    \/ DecCopyRest
    \/ DecGroupEnd
    \/ DecReturn

DecSpec == DecInit /\ [][DecNext]_vars

\* the same under the fairness of a running call: a step that can be taken is taken
DecFairSpec == DecInit /\ [][DecNext]_vars /\ WF_vars(DecNext)

----------------------------------------------------------------------------
(* Long inputs: runs longer than the longest match, and repeats as far apart
   as the history reaches *)

MaxRun == 600         \* runs of one byte of length MinRun..MaxRun, and of 200
MinRun == MaxRun - 1
FarSpread == 2        \* repeats at distances PGLZ_HISTORY_SIZE -+ FarSpread

Marker == <<1, 2, 3, 4, 5, 6, 7, 8>>
Trailer == <<11, 12, 13, 14, 15, 16>>

\* Marker, a run of one byte, and Marker again d bytes after the first
FarRepeat(d) == Marker \o [i \in 1..(d - Len(Marker)) |-> 90] \o Marker \o Trailer

LongInputs ==
    {Periodic(<<32>>, l) : l \in {200} \cup (MinRun..MaxRun)}
    \cup {FarRepeat(d) : d \in (PGLZ_HISTORY_SIZE - FarSpread)..(PGLZ_HISTORY_SIZE + FarSpread)}

LongInit ==
    /\ source \in LongInputs
    /\ strategy \in {strategy_default_data, strategy_always_data, StrategyRate99}
    /\ phase = "call"
    /\ CompressIdle
    /\ peer = NoPeer
    /\ calls = 1
    /\ csrc = << >>
    /\ slen = 0
    /\ rawsize = 0
    /\ check_complete = FALSE
    /\ dpc = "idle"
    /\ DecompressIdle

LongSpec == LongInit /\ [][Next]_vars

----------------------------------------------------------------------------
(* Inputs of every hash size: bytes of all values, the second half of each
   input a repeat of the first *)

\* one length under each of the thresholds 128, 256, 512, 1024 and one over
HashLens == {100, 200, 300, 600, 1100}

Mixed(n) == [i \in 1..n |-> (i * i + 7 * i + 3) % 256]

HashInputs == {Mixed(l \div 2) \o Mixed(l \div 2) : l \in HashLens}

HashInit ==
    /\ source \in HashInputs
    /\ strategy = strategy_always_data
    /\ phase = "call"
    /\ CompressIdle
    /\ peer = NoPeer
    /\ calls = 1
    /\ csrc = << >>
    /\ slen = 0
    /\ rawsize = 0
    /\ check_complete = FALSE
    /\ dpc = "idle"
    /\ DecompressIdle

HashSpec == HashInit /\ [][Next]_vars

----------------------------------------------------------------------------
(* The thresholds of a chain walk alone: good_match and good_drop as
   pglz_compress derives them from any match_size_good and match_size_drop,
   then the decay of pglz_find_match as often as it changes good_match *)

DropRange == 0..100
GoodRange == 17..PGLZ_MAX_MATCH

DecayStep ==
    /\ phase = "decay"
    /\ GoodMatchDecay(good_match, good_drop) # good_match
    /\ good_match' = GoodMatchDecay(good_match, good_drop)
    /\ UNCHANGED <<source, strategy, phase, src_ptr, dest, control_ptr, control_byte,
                   control_pos, found_match, hist_next, hist_idx, good_drop,
                   result_max, mask, hist_start, hist_entries, result, last_tag>>
    /\ UNCHANGED <<peer, calls, dvars>>

DecayInit ==
    /\ source = << >>
    /\ \E g \in GoodRange, d \in DropRange :
           /\ strategy = [strategy_default_data EXCEPT !.match_size_good = g,
                                                       !.match_size_drop = d]
           /\ good_match = ClampGoodMatch(g)
           /\ good_drop = ClampGoodDrop(d)
    /\ phase = "decay"
    /\ src_ptr = 0
    /\ dest = << >>
    /\ control_ptr = Dummy
    /\ control_byte = 0
    /\ control_pos = 0
    /\ found_match = FALSE
    /\ hist_next = 1
    /\ hist_idx = 0
    /\ result_max = 0
    /\ mask = 0
    /\ hist_start = << >>
    /\ hist_entries = << >>
    /\ result = NoResult
    /\ last_tag = NoTag
    /\ peer = NoPeer
    /\ calls = 1
    /\ csrc = << >>
    /\ slen = 0
    /\ rawsize = 0
    /\ check_complete = FALSE
    /\ dpc = "idle"
    /\ DecompressIdle

DecayNext == DecayStep

DecaySpec == DecayInit /\ [][DecayNext]_vars

----------------------------------------------------------------------------
(* The budget alone: result_max as pglz_compress computes it for an input of
   any length under any min_comp_rate.  The input's length is held in rawsize
   (do_test passes the one size as the input's length and as rawsize); its
   bytes are not held. *)

\* lengths at both ends of int32 and on both sides of INT_MAX / 100
RateSpread == 3
RateLens ==
    (0..RateSpread)
    \cup (((INT_MAX \div 100) - RateSpread)..((INT_MAX \div 100) + RateSpread))
    \cup {INT_MAX - k : k \in 0..RateSpread}
    \cup {1000, 123456789}

RateRange == (0 - 1)..101

RateCompute ==
    /\ phase = "rate"
    /\ phase' = "rated"
    /\ result_max' = ResultMax(rawsize, ClampNeedRate(strategy.min_comp_rate))
    /\ UNCHANGED <<source, strategy, src_ptr, dest, control_ptr, control_byte,
                   control_pos, found_match, hist_next, hist_idx, good_match,
                   good_drop, mask, hist_start, hist_entries, result, last_tag>>
    /\ UNCHANGED <<peer, calls, dvars>>

RateInit ==
    /\ source = << >>
    /\ \E r \in RateRange :
           strategy = [strategy_always_data EXCEPT !.min_comp_rate = r]
    /\ rawsize \in RateLens
    /\ phase = "rate"
    /\ CompressIdle
    /\ peer = NoPeer
    /\ calls = 1
    /\ csrc = << >>
    /\ slen = 0
    /\ check_complete = FALSE
    /\ dpc = "idle"
    /\ DecompressIdle

RateNext == RateCompute

RateSpec == RateInit /\ [][RateNext]_vars

----------------------------------------------------------------------------
(* Inputs whose chain walks meet recycled entries *)

\* a run longer than the history, every position of it in one hash list, whose
\* last match is too short to end the walk before the oldest entry
LongRun == Periodic(<<32>>, PGLZ_HISTORY_SIZE + PGLZ_MAX_MATCH + 11)

\* Word at 0; Phrase near the end of the history and again after the entry of
\* position 0 was recycled, followed there by the last 3 bytes of Word, so that
\* the position of its last byte is added inside a match to the list of Word,
\* whose head is the recycled entry; and Word once more
Word == <<3, 8, 8, 8>>
Phrase == <<5, 6, 7, 1, 2, 3>>
StaleLink ==
    Word \o <<20, 21>> \o [i \in 1..(PGLZ_HISTORY_SIZE - 100) |-> 90] \o Phrase \o <<30>>
    \o [i \in 1..100 |-> 90] \o Phrase \o <<8, 8, 8, 40>> \o Word \o Trailer

WalkInputs == {LongRun, StaleLink}

WalkInit ==
    /\ source \in WalkInputs
    /\ strategy \in {strategy_default_data, strategy_always_data}
    /\ phase = "call"
    /\ CompressIdle
    /\ peer = NoPeer
    /\ calls = 1
    /\ csrc = << >>
    /\ slen = 0
    /\ rawsize = 0
    /\ check_complete = FALSE
    /\ dpc = "idle"
    /\ DecompressIdle

WalkSpec == WalkInit /\ [][Next]_vars

----------------------------------------------------------------------------
(* The tag codec alone: pglz_out_tag on any offset and length the format
   holds, then the decompressor's field extraction on the bytes written *)

PGLZ_MAX_OFFSET == 4095     \* 12 bits: the masks 0xf00 and 0xff of pglz_out_tag

\* the offsets tried: every low byte under a zero high nibble, and every high
\* nibble over the low bytes at the ends and the middle of their range
TagOffsets ==
    {o \in 1..PGLZ_MAX_OFFSET : o < 256 \/ (o % 256) \in {0, 1, 127, 128, 255}}

TagLengths == 3..PGLZ_MAX_MATCH

\* "pglz_out_tag(dest_ptr, control_byte, control_pos, match_len, match_offset)"
OutTag ==
    /\ phase = "idle"
    /\ last_tag = NoTag
    /\ \E o \in TagOffsets, l \in TagLengths :
         /\ dest' = dest \o pglz_out_tag(l, o)
         /\ last_tag' = [at |-> o, len |-> l, off |-> o]
    /\ UNCHANGED <<source, strategy, phase, src_ptr, control_ptr, control_byte,
                   control_pos, found_match, hist_next, hist_idx, good_match,
                   good_drop, result_max, mask, hist_start, hist_entries, result>>
    /\ UNCHANGED <<peer, calls, dvars>>

\* the tag branch of the decompressor on the bytes of dest, up to the clamp
TagDecode ==
    /\ last_tag # NoTag
    /\ dpc = "idle"
    /\ csrc' = dest
    /\ slen' = Len(dest)
    /\ LET b2 == IF Len(dest) > 2 THEN At(dest, 2) ELSE 0
           tag == TagFields(At(dest, 0), At(dest, 1), b2)
       IN  /\ len' = tag.len
           /\ off' = tag.off
           /\ sp' = sp + tag.used
           /\ encoded' = encoded + tag.len
    /\ dpc' = "copy"
    /\ UNCHANGED <<rawsize, check_complete, out, ctrl, ctrlc, dresult, under_read,
                   over_read>>
    /\ UNCHANGED cvars

TagInit ==
    /\ source = << >>
    /\ strategy = strategy_default_data
    /\ phase = "idle"
    /\ CompressIdle
    /\ peer = NoPeer
    /\ calls = 1
    /\ csrc = << >>
    /\ slen = 0
    /\ rawsize = PGLZ_MAX_MATCH
    /\ check_complete = FALSE
    /\ dpc = "idle"
    /\ DecompressIdle

TagNext == OutTag \/ TagDecode

TagSpec == TagInit /\ [][TagNext]_vars

----------------------------------------------------------------------------
(* Two pglz_compress calls at once, on two sources that are disjoint parts of
   one array, their loop iterations interleaved in any order.  The locals of
   the call that is running are the variables of the model, those of the other
   call are in peer; hist_start and hist_entries are the one pair of static
   arrays both calls use. *)

MaxConcLen == 9       \* the two sources have 8..MaxConcLen bytes
PeerShift == 16       \* the second source starts this many bytes after the first

ConcInputs == {Periodic(u, l) : u \in {<<65>>, <<65, 66>>}, l \in 8..MaxConcLen}

\* the other call runs next: the locals change places, and the pointers kept in
\* hist_entries are now counted from the start of the other source
Switch ==
    /\ peer.phase \in {"call", "loop"}
    /\ peer' = [shift |-> 0 - peer.shift, source |-> source, strategy |-> strategy,
                phase |-> phase, src_ptr |-> src_ptr, dest |-> dest,
                control_ptr |-> control_ptr, control_byte |-> control_byte,
                control_pos |-> control_pos, found_match |-> found_match,
                hist_next |-> hist_next, hist_idx |-> hist_idx,
                good_match |-> good_match, good_drop |-> good_drop,
                result_max |-> result_max, mask |-> mask, result |-> result,
                last_tag |-> last_tag]
    /\ source' = peer.source
    /\ strategy' = peer.strategy
    /\ phase' = peer.phase
    /\ src_ptr' = peer.src_ptr
    /\ dest' = peer.dest
    /\ control_ptr' = peer.control_ptr
    /\ control_byte' = peer.control_byte
    /\ control_pos' = peer.control_pos
    /\ found_match' = peer.found_match
    /\ hist_next' = peer.hist_next
    /\ hist_idx' = peer.hist_idx
    /\ good_match' = peer.good_match
    /\ good_drop' = peer.good_drop
    /\ result_max' = peer.result_max
    /\ mask' = peer.mask
    /\ result' = peer.result
    /\ last_tag' = peer.last_tag
    /\ hist_entries' = [i \in DOMAIN hist_entries |->
                           [hist_entries[i] EXCEPT !.pos = @ - peer.shift]]
    /\ UNCHANGED <<hist_start, calls>>
    /\ UNCHANGED dvars

ConcInit ==
    /\ source \in ConcInputs
    /\ strategy = strategy_always_data
    /\ phase = "call"
    /\ CompressIdle
    /\ \E s \in ConcInputs :
          peer = [NoPeer EXCEPT !.shift = PeerShift, !.source = s,
                                !.strategy = strategy_always_data, !.phase = "call"]
    /\ calls = 2
    /\ csrc = << >>
    /\ slen = 0
    /\ rawsize = 0
    /\ check_complete = FALSE
    /\ dpc = "idle"
    /\ DecompressIdle

ConcNext ==
    \/ PglzCompressEnter
    \/ MainLoopStep
    \/ TailLoopStep
    \/ PglzCompressReturn
    \/ Switch

ConcSpec == ConcInit /\ [][ConcNext]_vars

----------------------------------------------------------------------------
(* One pglz_compress call after another, as do_test makes them: the static
   arrays are what the earlier calls left, the source buffer is used again *)

MaxCalls == 3

\* a source that fills all the entries and uses the largest hash table, and
\* short ones that hold the same byte sequences
SeqInputs ==
    {FarRepeat(PGLZ_HISTORY_SIZE + FarSpread), Marker \o Marker \o Trailer,
     Periodic(<<90>>, MinLen), Periodic(<<65, 66>>, MaxSmallLen)}

\* the caller calls pglz_compress again
NextCall ==
    /\ Returned
    /\ calls < MaxCalls
    /\ calls' = calls + 1
    /\ source' \in SeqInputs
    /\ strategy' \in {strategy_default_data, strategy_always_data}
    /\ phase' = "call"
    /\ src_ptr' = 0
    /\ dest' = << >>
    /\ control_ptr' = Dummy
    /\ control_byte' = 0
    /\ control_pos' = 0
    /\ found_match' = FALSE
    /\ hist_next' = 1
    /\ result' = NoResult
    /\ last_tag' = NoTag
    /\ UNCHANGED <<hist_idx, good_match, good_drop, result_max, mask, hist_start,
                   hist_entries, peer>>
    /\ UNCHANGED dvars

SeqInit ==
    /\ source \in SeqInputs
    /\ strategy \in {strategy_default_data, strategy_always_data}
    /\ phase = "call"
    /\ CompressIdle
    /\ peer = NoPeer
    /\ calls = 1
    /\ csrc = << >>
    /\ slen = 0
    /\ rawsize = 0
    /\ check_complete = FALSE
    /\ dpc = "idle"
    /\ DecompressIdle

SeqNext ==
    \/ PglzCompressEnter
    \/ MainLoopStep
    \/ TailLoopStep
    \/ PglzCompressReturn
    \/ NextCall

SeqSpec == SeqInit /\ [][SeqNext]_vars

----------------------------------------------------------------------------
(* pglz_decompress_hacked on streams of up to three items whose matches copy
   from inside the output and are long enough for every copy routine, the two
   bytes of memory after the stream known *)

MaxBody == 5          \* bytes of a stream after its control byte

\* control bytes: a literal then a match; two literals then a match; a literal
\* then two matches
VarControls == {2, 4, 6}

\* rawsize: less than a short match, more than one, and more than 32 bytes
VarRawsizes == {3, 12, 40}

\* the bytes after the control byte: literals, first bytes of matches of 4, 5
\* and 18 and more bytes, offsets 1 and 2, the third byte of a long match
VarBytes == {1, 2, 15, 65}

VarStreams == {<<c>> \o b : c \in VarControls, b \in SeqsUpTo(VarBytes, MaxBody)}

VarInit ==
    /\ source = << >>
    /\ strategy = strategy_default_data
    /\ phase = "idle"
    /\ CompressIdle
    /\ peer = NoPeer
    /\ calls = 1
    /\ \E s \in VarStreams, pad \in {<<b, b>> : b \in OobBytes}, r \in VarRawsizes :
          /\ OffsetsInRange(s \o pad, Len(s), r, 0, 0, [c |-> 0, n |-> 8])
          /\ csrc = s \o pad
          /\ slen = Len(s)
          /\ rawsize = r
    /\ check_complete \in BOOLEAN
    /\ dpc = "outer"
    /\ DecompressIdle

VarSpec == VarInit /\ [][DecNext]_vars

----------------------------------------------------------------------------
(* Properties *)

\* the call as a function agrees with the call taken step by step
AloneAgrees ==
    (Returned /\ dpc = "idle") =>
        LET a == pglz_compress(source, strategy)
        IN  result = a.result /\ dest = a.dest

\* C1: round trip. When pglz_compress succeeds under the default strategy, then
\* pglz_decompress_hacked on its output with rawsize = |s| and check_complete
\* returns |s| and leaves exactly s in the destination.
RoundTrip ==
    (strategy = strategy_default_data /\ phase = "ok" /\ dpc = "done")
        => (dresult = Len(source) /\ out = source)

\* a compressed input with at least one tag has been decompressed
RoundTripWitness ==
    /\ strategy = strategy_default_data
    /\ phase = "ok"
    /\ dpc = "done"
    /\ last_tag # NoTag
    /\ result < Len(source)

\* C2: the decompressor never reads the destination below dest[0] (reads at or
\* above dp cannot happen: every memcpy source ends before dp).  Stated for the
\* calls whose tags all lie inside the input.
NoUnderRead == ~over_read => ~under_read

\* C3: every call of the decompressor returns.  Stated for the calls whose
\* tags all lie inside the input.
DecompressTerminates == <>(dpc = "done" \/ over_read)

\* C4: output cap. The bytes written never pass rawsize, and a value returned
\* that is not the failure value lies in 0..rawsize.
OutputCap ==
    /\ Len(out) <= rawsize
    /\ (dpc = "done" /\ dresult # -1) => (dresult >= 0 /\ dresult <= rawsize)

\* a tag longer than the space left was decoded, inside a doubling copy
OutputCapWitness ==
    /\ dpc = "double"
    /\ ~over_read /\ ~under_read
    /\ encoded > rawsize
    /\ Len(out) = rawsize - 1
    /\ len = 1

BudgetState ==
    /\ phase = "ok" => (result = Len(dest) /\ result < result_max
                        /\ result_max <= Len(source))
    /\ (Returned /\ source = <<65, 66, 67, 68>> /\ strategy.min_comp_rate = 99
        /\ strategy.min_input_size <= 4) => result = -1

BudgetStep ==
    (phase = "loop" /\ Len(dest) >= result_max) => (phase' = "failed" /\ result' = -1)

BudgetRule == []BudgetState /\ [][BudgetStep]_vars

\* "ABCD" has failed on the budget under min_comp_rate = 99
BudgetWitness ==
    /\ phase = "failed"
    /\ source = <<65, 66, 67, 68>>
    /\ strategy = StrategyRate99
    /\ hist_entries # << >>

\* C7: with check_complete the call succeeds exactly when both cursors are at
\* their ends, and then returns rawsize; without it the bytes written.
CheckComplete ==
    dpc = "done" =>
        IF check_complete
        THEN IF sp = slen /\ Len(out) = rawsize
             THEN dresult = rawsize
             ELSE dresult = -1
        ELSE dresult = Len(out)

\* a complete decode that succeeded, and one that failed with input left over
CheckCompleteWitness ==
    /\ dpc = "done"
    /\ check_complete
    /\ Len(out) = rawsize
    /\ sp < slen
    /\ rawsize > 0

OffsetInRange ==
    last_tag # NoTag =>
        (last_tag.off >= 1 /\ last_tag.off <= 4095 /\ last_tag.off <= last_tag.at)

\* a tag reaches back the whole history, after the entries have been recycled
OffsetWitness ==
    /\ last_tag.off = PGLZ_HISTORY_SIZE
    /\ src_ptr > PGLZ_HISTORY_SIZE + 1

\* C10: every tag's length is in 3..273.
LengthInRange ==
    last_tag # NoTag => (last_tag.len >= 3 /\ last_tag.len <= PGLZ_MAX_MATCH)

\* the second full-length tag of a run longer than twice the longest match
LengthWitness ==
    /\ last_tag.len = PGLZ_MAX_MATCH
    /\ last_tag.at = PGLZ_MAX_MATCH + 1

\* C11: tag codec round trip. For every offset in 1..4095 and length in 3..273
\* pglz_out_tag writes 2 bytes when the length is at most 17 and 3 bytes from 18
\* on, and the decompressor's field extraction on those bytes gives back that
\* offset and length and consumes exactly the bytes written.
TagRoundTrip ==
    (phase = "idle" /\ last_tag # NoTag) =>
        /\ Len(dest) = (IF last_tag.len <= 17 THEN 2 ELSE 3)
        /\ dpc = "copy" =>
               (len = last_tag.len /\ off = last_tag.off /\ sp = Len(dest))

\* the shortest long tag with the largest offset has been written and decoded
TagRoundTripWitness ==
    /\ phase = "idle"
    /\ dpc = "copy"
    /\ last_tag.len = 18
    /\ last_tag.off = PGLZ_MAX_OFFSET
    /\ Len(dest) = 3

\* C12: pglz_compress never writes the destination at an index at or above
\* src_len + ceil(src_len/8) + 4, whether it succeeds or fails.  The budget
\* test at the top of every iteration holds the bytes written (dest_ptr - dest)
\* below result_max <= src_len, and an iteration writes at most a control byte
\* and a 3-byte tag, so that they never pass src_len + 3.
DestBound ==
    /\ Len(dest) < Len(source) + ((Len(source) + 7) \div 8) + 4
    /\ Len(dest) <= Len(source) + 3

\* a run on the input without repeats has failed on the budget with as many
\* bytes written as the input has
DestBoundWitness ==
    /\ phase = "failed"
    /\ source = Incompressible
    /\ Len(dest) = Len(source)

\* C13: two pglz_compress calls that run at once on disjoint sources and
\* destinations each return the value and write the bytes they return and
\* write when they run alone.
ConcurrentAsAlone ==
    (Returned /\ peer.phase \in {"ok", "failed"}) =>
        LET a == pglz_compress(source, strategy)
            b == pglz_compress(peer.source, peer.strategy)
        IN  /\ result = a.result /\ dest = a.dest
            /\ peer.result = b.result /\ peer.dest = b.dest

\* C14: no state crosses from one call to the next. Whatever calls came
\* before, a call returns the value and writes the bytes that the same call
\* returns and writes as the first call of the program.
NoCrossCallState ==
    Returned =>
        LET a == pglz_compress(source, strategy)
        IN  result = a.result /\ dest = a.dest

\* a short source has been compressed, with a tag, after a call that filled
\* every entry and used the largest hash table
NoCrossCallWitness ==
    /\ calls > 1
    /\ phase = "ok"
    /\ last_tag # NoTag
    /\ Len(source) < 128
    /\ Cardinality(DOMAIN hist_entries) = PGLZ_HISTORY_SIZE + 1
    /\ \E i \in DOMAIN hist_start : i >= 512 /\ hist_start[i] # INVALID_ENTRY

\* C15: the decompressors agree. On every stream whose matches all have an
\* offset of at least 1 and at most the bytes written so far, and for every
\* rawsize and check_complete, pglz_decompress_vanilla, pglz_decompress_hacked,
\* pglz_decompress_hacked_unrolled and pglz_decompress_hacked4, 8, 16 and 32
\* return the value and leave the bytes that the call of pglz_decompress_hacked
\* taken step by step returns and leaves.
VariantsAgree ==
    (dpc = "done" /\ ~under_read) =>
        \A v \in Variants :
            pglz_decompress(v, csrc, slen, rawsize, check_complete)
                = [result |-> dresult, out |-> out]

\* a match of more than 32 bytes at offset 2 over two different bytes has
\* been copied, the offset doubled more than once
VariantsAgreeWitness ==
    /\ dpc = "done"
    /\ ~under_read
    /\ ~over_read
    /\ Len(out) > 32
    /\ off > 4
    /\ out[1] # out[2]
    /\ dresult = rawsize

\* C16 as stated: the stream [0x01, 0x41, 0x00, 0x01] with rawsize 4 and
\* check_complete decompresses to "AAAA", the call returning 4.
OverlapExample01 ==
    (csrc = <<1, 65, 0, 1>> /\ rawsize = 4 /\ check_complete /\ dpc = "done")
        => (dresult = 4 /\ out = <<65, 65, 65, 65>>)

\* C16 amended: the stream [0x02, 0x41, 0x00, 0x01] (the control bit of the
\* second item set) with rawsize 4 and check_complete decompresses to "AAAA",
\* the call returning 4 without reading outside its buffers.
OverlapExample02 ==
    (csrc = <<2, 65, 0, 1>> /\ rawsize = 4 /\ check_complete /\ dpc = "done")
        => (dresult = 4 /\ out = <<65, 65, 65, 65>> /\ ~under_read /\ ~over_read)

\* the call on [0x02, 0x41, 0x00, 0x01] has returned, the match copied from
\* the byte before it with the offset doubled twice
OverlapExampleWitness ==
    /\ csrc = <<2, 65, 0, 1>>
    /\ rawsize = 4
    /\ check_complete
    /\ dpc = "done"
    /\ encoded = 4
    /\ off = 4

\* the buffer of 200 spaces
Spaces200 == Periodic(<<32>>, 200)

MatchValid ==
    last_tag # NoTag =>
        /\ last_tag.at - last_tag.off >= 0
        /\ last_tag.at + last_tag.len <= Len(source)
        /\ \A k \in 0..(last_tag.len - 1) :
               source[last_tag.at + k + 1] = source[last_tag.at - last_tag.off + k + 1]

\* a match found 3 bytes before src_end - 4: the word compare has matched 4
\* bytes and the length was clamped to len_bound = 3
MatchValidWitness ==
    /\ last_tag # NoTag
    /\ last_tag.at = Len(source) - 4 - 3
    /\ last_tag.len = 3
    /\ Read32Eq(source, last_tag.at, last_tag.at - last_tag.off)
    /\ src_ptr = Len(source) - 4

\* the entries the next call of pglz_find_match compares the input against
NextCandidates ==
    Candidates(source, hist_start, hist_entries, hist_idx, src_ptr,
               Len(source) - 4, good_match, good_drop)

\* C19: chain-walk invariant. Every history entry pglz_find_match compares the
\* input at position p against is not the sentinel entry 0, is the entry of its
\* own position (it has the bucket of the 4 bytes there), has the bucket h_cur
\* and a position q with p - 4094 <= q < p; the positions of successively
\* visited entries strictly decrease, and the walk makes at most as many steps
\* as the history has entries.
ChainWalkInvariant ==
    (phase = "loop" /\ src_ptr < Len(source) - 4) =>
        LET v == NextCandidates
        IN  /\ Len(v) <= PGLZ_HISTORY_SIZE
            /\ \A i \in 1..Len(v) :
                   /\ v[i].id # INVALID_ENTRY
                   /\ v[i].hist_idx = hist_idx
                   /\ v[i].hist_idx = pglz_hist_idx(source, v[i].pos, mask)
                   /\ v[i].pos >= src_ptr - 4094
                   /\ v[i].pos < src_ptr
            /\ \A i \in 1..(Len(v) - 1) : v[i + 1].pos < v[i].pos

\* a walk that ends at the link to a slot recycled for another bucket
StaleLinkWitness ==
    /\ phase = "loop"
    /\ src_ptr < Len(source) - 4
    /\ LET v == NextCandidates
       IN  /\ Len(v) > 0
           /\ LET e == HistEntryAt(hist_entries, v[Len(v)].id)
                  nxt == HistEntryAt(hist_entries, e.next_id)
              IN  /\ e.next_id # INVALID_ENTRY
                  /\ nxt.hist_idx # hist_idx
                  /\ nxt.pos < e.pos

\* a walk that ends at the link to a slot recycled for a newer position of the
\* same bucket, after the whole history was visited
RecycledLinkWitness ==
    /\ phase = "loop"
    /\ src_ptr < Len(source) - 4
    /\ LET v == NextCandidates
       IN  /\ Len(v) = PGLZ_HISTORY_SIZE
           /\ LET e == HistEntryAt(hist_entries, v[Len(v)].id)
                  nxt == HistEntryAt(hist_entries, e.next_id)
              IN  /\ e.next_id # INVALID_ENTRY
                  /\ nxt.hist_idx = hist_idx
                  /\ nxt.pos >= e.pos

\* C20: tie-break. During a chain walk the best offset is replaced only when the
\* candidate's match length is strictly greater than the best length so far.
TieBreak ==
    (phase = "loop" /\ src_ptr < Len(source) - 4) =>
        LET v == NextCandidates
        IN  \A i \in 2..Len(v) :
                v[i].offset # v[i - 1].offset => v[i].len > v[i - 1].len

\* what the next call of pglz_find_match returns
NextMatch ==
    pglz_find_match(source, hist_start, hist_entries, hist_idx, src_ptr,
                    Len(source) - 4, good_match, good_drop)

\* the number of leading bytes src[a..] and src[b..] have in common, at most cap
CommonPrefix(s, a, b, cap) ==
    LET same(j) == a + j < Len(s) /\ s[a + j + 1] = s[b + j + 1]
    IN  CHOOSE k \in 0..Max(cap, 0) :
            /\ \A j \in 0..(k - 1) : same(j)
            /\ k >= cap \/ ~same(k)

\* the longest of them over the entries v the next call visits, 0 without any
BestPrefix(v) ==
    LET lens == {CommonPrefix(source, src_ptr, v[i].pos,
                              Min(Len(source) - 4 - src_ptr, PGLZ_MAX_MATCH)) :
                     i \in 1..Len(v)} \cup {0}
    IN  CHOOSE m \in lens : \A x \in lens : x <= m

\* C21: word compare equals byte-wise compare. The length pglz_find_match
\* returns at position p is the maximum, over the chain entries it visited, of
\* the byte-wise common-prefix length of src[p..] and src[q..] capped at
\* min(src_end - 4 - p, 273) whenever that maximum is at least 3, and it reports
\* no match exactly when that maximum is below 3.
WordCompareExact ==
    (phase = "loop" /\ src_ptr < Len(source) - 4) =>
        LET v == NextCandidates
            best == BestPrefix(v)
        IN  /\ best >= 3 => (NextMatch.found /\ NextMatch.len = best)
            /\ best < 3 => ~NextMatch.found

\* a match over several candidates that a differing byte ends, not the cap,
\* at a length the word loop alone does not reach
WordCompareWitness ==
    /\ phase = "loop"
    /\ src_ptr < Len(source) - 4
    /\ Len(NextCandidates) >= 2
    /\ NextMatch.found
    /\ NextMatch.len % 4 # 0
    /\ NextMatch.len < Min(Len(source) - 4 - src_ptr, PGLZ_MAX_MATCH)

\* the head of the list of the current position, and the entry it names
CurHead == HistStartAt(hist_start, hist_idx)
CurHeadStale ==
    CurHead # INVALID_ENTRY /\ HistEntryAt(hist_entries, CurHead).hist_idx # hist_idx

\* C22: stale head. When hist_start[hist_idx] is non-zero but the entry it
\* names has another hist_idx, pglz_find_match reports no match and leaves
\* hist_start[hist_idx] = 0 and every other head as it was; when
\* hist_start[hist_idx] is 0 it reports no match and leaves every head as it
\* was.  (pglz_find_match writes no entry: it returns the heads only.)
StaleHeadCleared ==
    (phase = "loop" /\ src_ptr < Len(source) - 4) =>
        LET heads == DOMAIN hist_start \cup DOMAIN NextMatch.hs
        IN  /\ CurHeadStale =>
                   /\ ~NextMatch.found
                   /\ HistStartAt(NextMatch.hs, hist_idx) = INVALID_ENTRY
                   /\ \A i \in heads \ {hist_idx} :
                          HistStartAt(NextMatch.hs, i) = HistStartAt(hist_start, i)
            /\ CurHead = INVALID_ENTRY =>
                   /\ ~NextMatch.found
                   /\ \A i \in heads :
                          HistStartAt(NextMatch.hs, i) = HistStartAt(hist_start, i)

\* the next call meets a head whose entry was recycled for another list, other
\* lists having heads
StaleHeadWitness ==
    /\ phase = "loop"
    /\ src_ptr < Len(source) - 4
    /\ CurHeadStale
    /\ \E i \in DOMAIN hist_start : i # hist_idx /\ hist_start[i] # INVALID_ENTRY

\* C23: on every input of at least 4 bytes that pglz_compress accepts and
\* compresses, no match covers any of the last 4 input bytes, the items before
\* the last 4 stand for exactly the first src_len - 4 bytes (the main loop ends
\* with the cursor at src_len - 4), and the last 4 items of the stream are
\* literals carrying the last 4 bytes.
TailLiterals ==
    (phase = "ok" /\ Len(source) >= 4) =>
        LET it == StreamItems(dest)
            n == Len(it)
        IN  /\ last_tag # NoTag => last_tag.at + last_tag.len <= Len(source) - 4
            /\ src_ptr = Len(source)
            /\ n >= 4
            /\ it[n - 3].at = Len(source) - 4
            /\ \A j \in 1..4 :
                   /\ ~it[n - 4 + j].tag
                   /\ it[n - 4 + j].byte = source[Len(source) - 4 + j]

\* a compressed run: the match before the last 4 bytes could have gone on over
\* them, and ends at src_len - 4
TailLiteralsWitness ==
    /\ phase = "ok"
    /\ last_tag # NoTag
    /\ last_tag.at + last_tag.len = Len(source) - 4
    /\ \A j \in 1..4 :
           source[Len(source) - 4 + j] = source[Len(source) - 4 + j - last_tag.off]

\* the stream written so far, the open control byte holding its bits so far
StreamSoFar == PatchControl(dest, control_ptr, control_byte)

\* the item it stands for the input it was written for: a literal carries the
\* input byte of its position, a tag has the length and offset of a repeat there
ItemOfSource(it) ==
    IF it.tag
    THEN /\ it.off >= 1
         /\ it.off <= it.at
         /\ it.at + it.len <= Len(source)
         /\ \A k \in 0..(it.len - 1) :
                source[it.at + k + 1] = source[it.at - it.off + k + 1]
    ELSE it.at < Len(source) /\ it.byte = source[it.at + 1]

\* C24: group structure. After every item pglz_compress writes, and so at its
\* successful return, the stream is a sequence of groups of one control byte and
\* its items: every group but the last has 8 items and the last 1..8; read
\* with bit i (lsb first) of its control byte telling whether item i is a tag,
\* the items are the ones written (the last one is the tag or the literal just
\* written, every one stands for the input at its position, together they
\* stand for the input up to the cursor); the bits of the last control byte
\* beyond its items are 0, and control_pos is the bit of the next item, 0
\* after 8 items.
GroupStructure ==
    ((phase = "loop" /\ src_ptr > 0) \/ phase = "ok") =>
        LET it == StreamItems(StreamSoFar)
            n == Len(it)
            open == Cardinality({j \in 1..n : it[j].ctrl = control_ptr})
            ctrls == {it[j].ctrl : j \in 1..n}
        IN  /\ n >= 1
            /\ it[n].at + it[n].len = src_ptr
            /\ IF last_tag # NoTag /\ last_tag.at + last_tag.len = src_ptr
               THEN /\ it[n].tag
                    /\ [at |-> it[n].at, len |-> it[n].len, off |-> it[n].off] = last_tag
               ELSE ~it[n].tag
            /\ \A j \in 1..n : ItemOfSource(it[j])
            /\ \A c \in ctrls \ {control_ptr} :
                   Cardinality({j \in 1..n : it[j].ctrl = c}) = 8
            /\ it[n].ctrl = control_ptr
            /\ open \in 1..8
            /\ control_pos = Pow2(open) % 256
            /\ control_byte < Pow2(open)
            /\ phase = "ok" => (src_ptr = Len(source) /\ dest = StreamSoFar)

\* a compressed stream of more than two groups with tags in a group that is
\* not the last, the last group short of 8 items
GroupStructureWitness ==
    /\ phase = "ok"
    /\ LET it == StreamItems(dest)
       IN  /\ Len(it) > 16
           /\ Len(it) % 8 # 0
           /\ \E j \in 1..Len(it) : it[j].tag /\ it[j].ctrl # control_ptr

\* C25: hash equivalence. At every main-loop position p <= src_len - 4 the
\* incrementally maintained hist_idx is the direct fingerprint
\* ((s[p] << 6) ^ (s[p+1] << 4) ^ (s[p+2] << 2) ^ s[p+3]) & mask, mask + 1 being
\* the hash size of the input, and the hist_idx every insert has stored is the
\* direct fingerprint of the position inserted.
HashEquivalence ==
    (phase = "loop" /\ src_ptr <= Len(source) - 4) =>
        /\ mask + 1 = HashSize(Len(source))
        /\ hist_idx = pglz_hist_idx(source, src_ptr, mask)
        /\ \A i \in DOMAIN hist_entries \ {INVALID_ENTRY} :
               hist_entries[i].hist_idx = pglz_hist_idx(source, hist_entries[i].pos, mask)

\* the cursor after the inserts of a match, under the hash size hs
HashWitnessAt(hs) ==
    /\ phase = "loop"
    /\ src_ptr <= Len(source) - 4
    /\ mask + 1 = hs
    /\ last_tag # NoTag
    /\ last_tag.at + last_tag.len = src_ptr

\* the largest hash size, reached with the cursor after the inserts of a match
HashEquivalenceWitness == HashWitnessAt(8192)

\* C26: decay equivalence. For every match_size_drop in 0..100 and every
\* good_match reachable from a start in 17..273, the fixed-point step
\* good_match - ((good_match * (match_size_drop * 128 / 100)) >> 7) gives the
\* value of the percent step good_match - (good_match * match_size_drop) / 100.
DecayEquivalent ==
    phase = "decay" =>
        GoodMatchDecay(good_match, good_drop)
            = good_match - ((good_match * strategy.match_size_drop) \div 100)

\* floor(n * (100 - r) / 100), computed without a product over 32 bits
FloorRate(n, r) == (n \div 100) * (100 - r) + (((n % 100) * (100 - r)) \div 100)

\* C27: for every src_len in 0..INT_MAX and every min_comp_rate, result_max is
\* floor(src_len * (100 - need_rate) / 100), need_rate being min_comp_rate
\* clamped to 0..99, also for src_len > INT_MAX / 100, and it is in int32.
RateExact ==
    phase = "rated" =>
        /\ result_max = FloorRate(rawsize, ClampNeedRate(strategy.min_comp_rate))
        /\ result_max >= 0
        /\ result_max <= INT_MAX

\* C28: partial decoding yields a prefix. For every input s that pglz_compress
\* compresses and every k in 0..|s|, pglz_decompress_hacked on the output with
\* rawsize = k and check_complete = false returns k and leaves s[0..k) in the
\* destination, reading inside its buffers only.
SlicePrefix ==
    (phase = "ok" /\ dpc = "done" /\ ~check_complete) =>
        /\ dresult = rawsize
        /\ out = SubSeq(source, 1, rawsize)
        /\ ~under_read
        /\ ~over_read

\* a slice that ends in the middle of the copy of the last tag, more items
\* following the tag in the stream
SlicePrefixWitness ==
    /\ phase = "ok"
    /\ dpc = "done"
    /\ ~check_complete
    /\ last_tag # NoTag
    /\ rawsize > last_tag.at
    /\ rawsize < last_tag.at + last_tag.len
    /\ sp < slen

\* C29: for every src_len >= 0 and every strategy that accepts it, src_len in
\* 0..3 under the always strategy included, pglz_compress reads source bytes at
\* indices 0..src_len - 1 only.
SourceReadsInside ==
    phase \in {"loop", "ok"} => SourceReads \subseteq 0..(Len(source) - 1)

\* C30: for every compressed input of slen bytes, pglz_decompress_hacked reads
\* source bytes at indices 0..slen - 1 only, also when the input ends in the
\* middle of a 2- or 3-byte tag.
DecoderReadsInside == ~over_read

====
